---- MODULE Spec2Model ----
(***************************************************************************)
(* A model of src/app.py: the monthly on-line examination page.           *)
(*                                                                         *)
(* Text is modelled as a sequence of one-character strings.  The Chinese   *)
(* characters of the true/false lexicon are written by their pinyin:       *)
(*   "dui" U+5BF9   "zheng" U+6B63   "que" U+786E   "shi" U+662F           *)
(*   "cuo" U+9519   "wu"    U+8BEF   "fou" U+5426                          *)
(* so that <<"zheng","que">> is the two-character word U+6B63 U+786E.      *)
(***************************************************************************)
EXTENDS Integers, Sequences, FiniteSets, TLC

(***************************************************************************)
(* Bounds of the model.                                                    *)
(***************************************************************************)
\* longest question bank (rows of the CSV file) drawn for the sampler
MaxPool == 4
\* longest generated option text drawn for the classifier
MaxText == 2
\* most Result Sink inserts one session is followed through
MaxInserts == 2
MaxExam == 2

(***************************************************************************)
(* Configuration, src/app.py lines 19-24.  The three section sizes are     *)
(* scaled down from 30 / 20 / 10 so that a bank of MaxPool rows can hold   *)
(* more questions of a type than the section takes; the scores are the     *)
(* source's.                                                               *)
(***************************************************************************)
NUM_SINGLE == 2
NUM_MULTIPLE == 1
NUM_TRUE_FALSE == 1
SINGLE_SCORE == 1
MULTIPLE_SCORE == 2

(***************************************************************************)
(* Python values.                                                          *)
(***************************************************************************)
\* a missing cell of the CSV file, which pandas reads as the float nan
NaN == <<"<nan>">>

\* str(v): the float nan prints as "nan", a string is itself
str(v) == IF v = NaN THEN <<"n", "a", "n">> ELSE v

\* q.get(key, default) on a dict-shaped record
get(q, key, default) == IF key \in DOMAIN q THEN q[key] ELSE default

\* the characters str.strip() removes
Whitespace == {" "}

\* the characters [A-Za-z] matches, among those the model draws
AsciiLetters == {"A", "B", "C", "D", "E", "F", "N", "a", "b", "n", "x", "y"}

RECURSIVE lstrip(_)
lstrip(s) == IF s # <<>> /\ Head(s) \in Whitespace THEN lstrip(Tail(s)) ELSE s

RECURSIVE rstrip(_)
rstrip(s) ==
  IF s # <<>> /\ s[Len(s)] \in Whitespace THEN rstrip(SubSeq(s, 1, Len(s) - 1)) ELSE s

\* str.strip()
strip(s) == rstrip(lstrip(s))

\* str.upper(), character by character
upper_char(c) ==
  CASE c = "a" -> "A"
    [] c = "b" -> "B"
    [] c = "n" -> "N"
    [] c = "x" -> "X"
    [] c = "y" -> "Y"
    [] OTHER -> c

upper(s) == [i \in 1..Len(s) |-> upper_char(s[i])]

\* Python's  word in content  on strings
contains(content, word) ==
  \E i \in 1..(Len(content) - Len(word) + 1) : SubSeq(content, i, i + Len(word) - 1) = word

\* re.sub(r'^[A-Za-z]\.\s*', '', s): drop a leading "<letter>." and the
\* whitespace after it
strip_prefix(s) ==
  IF Len(s) >= 2 /\ s[1] \in AsciiLetters /\ s[2] = "."
  THEN lstrip(SubSeq(s, 3, Len(s)))
  ELSE s

TrueWords == {<<"dui">>, <<"zheng", "que">>, <<"shi">>}
FalseWords == {<<"cuo">>, <<"cuo", "wu">>, <<"fou">>}

(***************************************************************************)
(* The Question Classifier.                                                *)
(***************************************************************************)
is_true_false_question(q) ==
  LET opt_a == strip(str(get(q, "option_A", <<>>)))
      opt_b == strip(str(get(q, "option_B", <<>>)))
      content_a == strip_prefix(opt_a)
      content_b == strip_prefix(opt_b)
      a_is_true == \E word \in TrueWords : contains(content_a, word)
      b_is_false == \E word \in FalseWords : contains(content_b, word)
  IN  a_is_true /\ b_is_false

\* the mutant of classify: the length tests come before the true/false test
classify_LengthFirst(q) ==
  LET ans_len == Len(q.answer)
  IN  IF ans_len = 1 THEN "Single"
      ELSE IF ans_len >= 2 THEN "Multiple"
      ELSE IF is_true_false_question(q) THEN "TrueFalse"
      ELSE "None"

\* the if / elif chain that picks a question's list
classify(q) ==
  LET ans_len == Len(q.answer)
  IN  IF is_true_false_question(q) THEN "TrueFalse"
      ELSE IF ans_len = 1 THEN "Single"
      ELSE IF ans_len >= 2 THEN "Multiple"
      ELSE "None"

(***************************************************************************)
(* random.seed(42) and random.shuffle.  MT holds the leading 16 bits of    *)
(* the successive 32-bit outputs of the Mersenne Twister seeded with 42;   *)
(* getrandbits(k) for k <= 16 is the leading k bits of the next output.    *)
(***************************************************************************)
MT == <<41905, 7296, 1639, 48598, 18024, 16049, 14628, 9144, 48265, 6717,
        44348, 48540, 58469, 35741, 5697, 38698, 27651, 2082, 1952, 6140,
        14328, 15247, 33118, 39453>>

RECURSIVE bit_length(_)
bit_length(n) == IF n = 0 THEN 0 ELSE 1 + bit_length(n \div 2)

getrandbits(k, pos) == MT[pos] \div (2 ^ (16 - k))

\* Random._randbelow(n): draw bit_length(n) bits until the draw is below n
RECURSIVE randbelow(_, _)
randbelow(n, pos) ==
  LET r == getrandbits(bit_length(n), pos)
  IN  IF r < n THEN [r |-> r, pos |-> pos + 1] ELSE randbelow(n, pos + 1)

swap(x, i, j) == [x EXCEPT ![i] = x[j], ![j] = x[i]]

\* for i in reversed(range(1, len(x))): j = randbelow(i + 1); swap x[i], x[j]
\* (i counts from 1 here, so the draw is randbelow(i))
RECURSIVE shuffle_from(_, _, _)
shuffle_from(x, i, pos) ==
  IF i < 2 THEN [x |-> x, pos |-> pos]
  ELSE LET rb == randbelow(i, pos)
       IN  shuffle_from(swap(x, i, rb.r + 1), i - 1, rb.pos)

\* random.shuffle(x) with the generator at position pos of its stream
shuffle(x, pos) == shuffle_from(x, Len(x), pos)

min(a, b) == IF a <= b THEN a ELSE b

(***************************************************************************)
(* The Sampler.                                                            *)
(***************************************************************************)
\* df["answer"].astype(str).str.strip().str.upper()
normalize_answer(q) == [q EXCEPT !.answer = upper(strip(str(q.answer)))]

\* the frame after the answer column is cleaned and blank answers dropped
clean_frame(rows) ==
  LET cleaned == [i \in 1..Len(rows) |-> normalize_answer(rows[i])]
      kept(q) == Len(q.answer) > 0
  IN  SelectSeq(cleaned, kept)

\* the mutant of take: the section is never cut to its configured size
take_All(list, num) == list

\* list[:min(num, len(list))]
take(list, num) == SubSeq(list, 1, min(num, Len(list)))

\* the mutant of bucket: the true/false test is an  if  of its own, so a
\* true/false question is put in a length list as well
bucket_NotExclusive(df, type) ==
  LET member(q) ==
        \/ type = "TrueFalse" /\ is_true_false_question(q)
        \/ type = "Single" /\ Len(q.answer) = 1
        \/ type = "Multiple" /\ Len(q.answer) >= 2
  IN  SelectSeq(df, member)

\* single_list, multiple_list and true_false_list as the loop over the
\* frame's records fills them
bucket(df, type) ==
  LET member(q) == classify(q) = type
  IN  SelectSeq(df, member)

\* the mutant of load_and_sort_questions: break_multiple leaves out the
\* single-choice section
load_and_sort_questions_BreakShort(rows) ==
  LET df == clean_frame(rows)
      single_list == shuffle(bucket(df, "Single"), 1)
      multiple_list == shuffle(bucket(df, "Multiple"), single_list.pos)
      true_false_list == shuffle(bucket(df, "TrueFalse"), multiple_list.pos)
  IN  [questions |-> take(single_list.x, NUM_SINGLE)
                       \o take(multiple_list.x, NUM_MULTIPLE)
                       \o take(true_false_list.x, NUM_TRUE_FALSE),
       break_single |-> min(NUM_SINGLE, Len(single_list.x)),
       break_multiple |-> min(NUM_MULTIPLE, Len(multiple_list.x))]

\* random.seed(42) puts the generator at position 1 of its stream; the
\* three lists are shuffled one after the other
load_and_sort_questions(rows) ==
  LET df == clean_frame(rows)
      single_list == shuffle(bucket(df, "Single"), 1)
      multiple_list == shuffle(bucket(df, "Multiple"), single_list.pos)
      true_false_list == shuffle(bucket(df, "TrueFalse"), multiple_list.pos)
  IN  [questions |-> take(single_list.x, NUM_SINGLE)
                       \o take(multiple_list.x, NUM_MULTIPLE)
                       \o take(true_false_list.x, NUM_TRUE_FALSE),
       break_single |-> min(NUM_SINGLE, Len(single_list.x)),
       break_multiple |-> min(NUM_SINGLE, Len(single_list.x))
                            + min(NUM_MULTIPLE, Len(multiple_list.x))]

(***************************************************************************)
(* Python values held in the session state and by the widgets.             *)
(***************************************************************************)
None == [t |-> "None"]
PyStr(x) == [t |-> "str", s |-> x]
\* a list of strings; the program only ever reads it through set(...), so
\* the model keeps the set of its elements
PyList(S) == [t |-> "list", l |-> S]

\* st.session_state.<key> = value
setkey(ss, key, value) ==
  [k \in DOMAIN ss \cup {key} |-> IF k = key THEN value ELSE ss[k]]

\* s.split(".")[0]
RECURSIVE split_first(_)
split_first(s) ==
  IF s = <<>> \/ Head(s) = "." THEN <<>> ELSE <<Head(s)>> \o split_first(Tail(s))

(***************************************************************************)
(* display_question: the widget of one question and the answer it yields.  *)
(***************************************************************************)
OptionLabels == <<"A", "B", "C", "D", "E", "F">>

option_key(label) ==
  CASE label = "A" -> "option_A"
    [] label = "B" -> "option_B"
    [] label = "C" -> "option_C"
    [] label = "D" -> "option_D"
    [] label = "E" -> "option_E"
    [] label = "F" -> "option_F"

\* the texts of the non-blank options A..F  (options_map.values())
option_labels(q) ==
  LET opt_text(label) == get(q, option_key(label), <<>>)
      shown(label) == opt_text(label) # NaN /\ strip(opt_text(label)) # <<>>
      labels == SelectSeq(OptionLabels, shown)
  IN  [i \in 1..Len(labels) |-> opt_text(labels[i])]

\* is_multiple = len(true_answer_str) > 1
is_multiple(q) == Len(upper(strip(str(get(q, "answer", <<>>))))) > 1

has_widget(q) == option_labels(q) # <<>>

\* what a widget holds before the candidate touches it
widget_default(q) ==
  IF ~has_widget(q) THEN None
  ELSE IF is_multiple(q) THEN PyList({})
  ELSE None

\* the values the candidate can give the widget of question q
widget_values(q) ==
  LET texts == {option_labels(q)[i] : i \in 1..Len(option_labels(q))}
  IN  IF ~has_widget(q) THEN {}
      ELSE IF is_multiple(q) THEN {PyList(S) : S \in SUBSET texts}
      ELSE {PyStr(x) : x \in texts}

\* the mutant of display_question: a radio answer is not recorded
display_question_NoRadio(q, selected) ==
  IF ~has_widget(q) THEN None
  ELSE IF is_multiple(q)
       THEN PyList({split_first(x) : x \in selected.l})
       ELSE None

\* user_choice, given the value selected of the widget with key q_<idx>
display_question(q, selected) ==
  IF ~has_widget(q) THEN None
  ELSE IF is_multiple(q)
       THEN PyList({split_first(x) : x \in selected.l})
       ELSE IF selected = None THEN None ELSE PyStr(split_first(selected.s))

(***************************************************************************)
(* The Scorer: the loop of step 4.                                         *)
(***************************************************************************)
true_set(q) ==
  LET true_ans_str == upper(strip(str(get(q, "answer", <<>>))))
  IN  {<<true_ans_str[i]>> : i \in 1..Len(true_ans_str)}

user_set(user_ans) ==
  IF user_ans.t = "list" THEN user_ans.l
  ELSE IF user_ans.t = "str" THEN {user_ans.s}
  ELSE {}

\* an answer counted right when none of its letters is wrong
is_correct_NoWrongLetter(q, user_ans) == user_set(user_ans) \subseteq true_set(q)

is_correct(q, user_ans) == user_set(user_ans) = true_set(q)

\* score with part of the points for part of the letters
score_PartialCredit(q, user_ans) ==
  IF is_correct(q, user_ans)
    THEN IF Cardinality(true_set(q)) > 1 THEN MULTIPLE_SCORE ELSE SINGLE_SCORE
    ELSE IF user_set(user_ans) # {} /\ user_set(user_ans) \subseteq true_set(q)
           THEN SINGLE_SCORE
           ELSE 0

score(q, user_ans) ==
  IF ~is_correct(q, user_ans) THEN 0
  ELSE IF Cardinality(true_set(q)) > 1 THEN MULTIPLE_SCORE ELSE SINGLE_SCORE

RECURSIVE total_score(_, _)
total_score(questions, user_answers) ==
  IF questions = <<>> \/ user_answers = <<>> THEN 0
  ELSE score(Head(questions), Head(user_answers))
         + total_score(Tail(questions), Tail(user_answers))

\* the rows of the details table: for each question whether the answer is
\* right, and the points it is given
details(questions, user_answers) ==
  [i \in 1..min(Len(questions), Len(user_answers)) |->
     [correct |-> is_correct(questions[i], user_answers[i]),
      score |-> score(questions[i], user_answers[i])]]

(***************************************************************************)
(* The question banks the model draws.  A row is a record of the CSV       *)
(* file's columns; stem stands for the row's text and tells rows apart.    *)
(***************************************************************************)
Row(stem, a, b, answer) ==
  [stem |-> stem, option_A |-> a, option_B |-> b, answer |-> answer]

\* the kinds of row: single choice, multiple choice (answer in lower case),
\* true/false with a one-letter answer, true/false with a two-letter answer
\* and no "A." prefixes, a blank answer, a row whose option A names a true
\* word but whose option B names no false word, a row of empty cells
RowKinds ==
  << [a |-> <<"A", ".", " ", "x">>, b |-> <<"B", ".", "y">>, answer |-> <<"B">>],
     [a |-> <<"A", ".", "x">>, b |-> <<"B", ".", "y">>, answer |-> <<"a", "b">>],
     [a |-> <<"A", ".", " ", "dui">>, b |-> <<"B", ".", "cuo">>, answer |-> <<" ", "A">>],
     [a |-> <<"zheng", "que">>, b |-> <<"cuo", "wu">>, answer |-> <<"A", "B">>],
     [a |-> <<"A", ".", "x">>, b |-> <<"B", ".", "y">>, answer |-> <<" ">>],
     [a |-> <<"A", ".", "shi">>, b |-> <<"B", ".", "y">>, answer |-> <<"A">>],
     [a |-> NaN, b |-> NaN, answer |-> NaN] >>

\* the banks of n rows, row i having stem i
BanksOfLen(n) ==
  {[i \in 1..n |-> Row(i, RowKinds[kind[i]].a, RowKinds[kind[i]].b, RowKinds[kind[i]].answer)] :
     kind \in [1..n -> 1..Len(RowKinds)]}

\* the characters of a generated option text, and the texts of n characters
TextChars == {"A", ".", "dui", "zheng", "que", "cuo"}

TextsOfLen(n) == [1..n -> TextChars]

Texts == UNION {TextsOfLen(n) : n \in 0..MaxText}

\* written-out options A and B: one that names a true (false) word behind
\* its prefix, one that names none, one that is the bare word
FixedA == {<<"A", ".", " ", "dui">>, <<"A", ".", "x">>, <<"shi">>}
FixedB == {<<"B", ".", " ", "cuo">>, <<"B", ".", "y">>, <<"fou">>}

\* the banks of one row of which option A or option B is a generated text
GeneratedBanks ==
  {<<Row(1, ab[1], ab[2], answer)>> :
     ab \in (Texts \X FixedB) \cup (FixedA \X Texts),
     answer \in {<<"B">>, <<"a", "b">>, <<" ">>}}

SampleBanks == UNION {BanksOfLen(n) : n \in 0..MaxPool} \cup GeneratedBanks

\* the banks one candidate's exam is followed on: every bank of at most
\* MaxExam rows, of every kind but the single-choice row whose option A
\* names a true word (it is shown and graded as the first kind is)
ExamKinds == {k \in 1..Len(RowKinds) : RowKinds[k].b # <<"B", ".", "y">> \/ RowKinds[k].a # <<"A", ".", "shi">>}

ExamBanks ==
  UNION {{b \in BanksOfLen(n) :
            \A i \in 1..n : \E k \in ExamKinds :
               b[i] = Row(i, RowKinds[k].a, RowKinds[k].b, RowKinds[k].answer)} :
         n \in 1..MaxExam}

\* the banks the sessions are followed on: one question of each type
SessionBanks ==
  { <<Row(1, RowKinds[1].a, RowKinds[1].b, RowKinds[1].answer),
      Row(2, RowKinds[2].a, RowKinds[2].b, RowKinds[2].answer)>>,
    <<Row(1, RowKinds[3].a, RowKinds[3].b, RowKinds[3].answer),
      Row(2, RowKinds[7].a, RowKinds[7].b, RowKinds[7].answer)>> }

Sessions == {"s1", "s2"}

\* what a candidate types into the name and id fields
NameInputs == {<<>>, <<" ">>, <<" ", "x">>}
IdInputs == {<<>>, <<"1", " ">>}

\* the admin password of the source and what is typed into its field
AdminPassword == <<"a", "d", "m", "i", "n", "1", "2", "3">>
PwdInputs == {<<>>, <<"x">>, AdminPassword}

\* how supabase's insert(...).execute() can end
Outcomes == {"201", "error", "exception"}

(***************************************************************************)
(* The state.                                                              *)
(*   csv            the file at CSV_PATH: found or not, and its rows        *)
(*   cache          the memo st.cache_data keeps of load_and_sort_questions *)
(*   session_state  st.session_state of each session; a key is present     *)
(*                  iff it is in the DOMAIN                                *)
(*   widgets        the widget values of each session                      *)
(*   insert_calls   the records each session has sent to insert()          *)
(*   page           what the last run of the script showed each session    *)
(***************************************************************************)
VARIABLES csv, cache, session_state, widgets, insert_calls, page

vars == <<csv, cache, session_state, widgets, insert_calls, page>>

NoWidgets == [name_input |-> <<>>, id_input |-> <<>>, q |-> <<>>, admin_pwd |-> <<>>]

BlankPage ==
  [view |-> "identity", warning |-> FALSE, total_score |-> -1, details |-> <<>>,
   db |-> "none", selected |-> FALSE]

\* the state once every session has loaded the page
InitSessions ==
  /\ cache = [hit |-> FALSE]
  /\ session_state = [s \in Sessions |-> <<>>]
  /\ widgets = [s \in Sessions |-> NoWidgets]
  /\ insert_calls = [s \in Sessions |-> <<>>]
  /\ page = [s \in Sessions |-> BlankPage]

Init ==
  /\ csv \in {[found |-> FALSE]} \cup {[found |-> TRUE, rows |-> b] : b \in SessionBanks}
  /\ InitSessions

(***************************************************************************)
(* One run of the script for one session.  A run works on a context        *)
(*   [ss, w, cache, calls, page]                                           *)
(* the session's session_state and widget values, the memo, the records    *)
(* the session has sent to insert(), and the page being built.  A widget   *)
(* that a run does not show loses its value.                               *)
(***************************************************************************)
ExamPage == [BlankPage EXCEPT !.view = "exam"]
HaltPage == [BlankPage EXCEPT !.view = "halt"]

\* step 1: "name" not in st.session_state or "id" not in st.session_state
needs_identity(ss) == "name" \notin DOMAIN ss \/ "id" \notin DOMAIN ss

\* the mutant of valid_identity: the inputs are not trimmed before the test
valid_identity_Untrimmed(name_input, id_input) == name_input # <<>> /\ id_input # <<>>

\* the mutant of valid_identity: only the name is looked at
valid_identity_NameOnly(name_input, id_input) == strip(name_input) # <<>>

\* name_input.strip() and id_input.strip()
valid_identity(name_input, id_input) ==
  strip(name_input) # <<>> /\ strip(id_input) # <<>>

\* the two assignments of a successful start
store_identity(ss, name_input, id_input) ==
  setkey(setkey(ss, "name", strip(name_input)), "id", strip(id_input))

\* step 2: "initialized" not in st.session_state
needs_init(ss) == "initialized" \notin DOMAIN ss

\* the mutant of step2: no guard and no seed, so every run sets the exam up
\* again with the questions in another order (the order last drawn, turned
\* by one) and fresh widgets
step2_Resample(c) ==
  IF ~csv.found THEN c
  ELSE LET result == IF c.cache.hit THEN c.cache.value
                     ELSE load_and_sort_questions(csv.rows)
           drawn == IF "questions" \in DOMAIN c.ss THEN c.ss.questions
                    ELSE result.questions
           questions == IF drawn = <<>> THEN drawn ELSE Append(Tail(drawn), Head(drawn))
           ss1 == setkey(c.ss, "questions", questions)
           ss2 == setkey(ss1, "user_answers", [i \in 1..Len(questions) |-> None])
           ss3 == setkey(ss2, "submitted",
                         IF "submitted" \in DOMAIN c.ss THEN c.ss.submitted ELSE FALSE)
           ss4 == setkey(ss3, "break_single", result.break_single)
           ss5 == setkey(ss4, "break_multiple", result.break_multiple)
       IN  [c EXCEPT !.cache = [hit |-> TRUE, value |-> result],
                     !.ss = setkey(ss5, "initialized", TRUE),
                     !.w.q = <<>>]

\* the exam set up from an order of its own for every session that does not
\* draw the sample first
init_exam_OwnOrder(c, result) ==
  LET drawn == result.questions
      questions == IF c.cache.hit /\ drawn # <<>>
                   THEN Append(Tail(drawn), Head(drawn)) ELSE drawn
      ss1 == setkey(c.ss, "questions", questions)
      ss2 == setkey(ss1, "user_answers", [i \in 1..Len(questions) |-> None])
      ss3 == setkey(ss2, "submitted", FALSE)
      ss4 == setkey(ss3, "break_single", result.break_single)
      ss5 == setkey(ss4, "break_multiple", result.break_multiple)
  IN  [c EXCEPT !.cache = [hit |-> TRUE, value |-> result],
                !.ss = setkey(ss5, "initialized", TRUE)]

\* step 2, the body of the guard: the exam of the session is set up from
\* the sample result
init_exam(c, result) ==
  LET questions == result.questions
      ss1 == setkey(c.ss, "questions", questions)
      ss2 == setkey(ss1, "user_answers", [i \in 1..Len(questions) |-> None])
      ss3 == setkey(ss2, "submitted", FALSE)
      ss4 == setkey(ss3, "break_single", result.break_single)
      ss5 == setkey(ss4, "break_multiple", result.break_multiple)
  IN  [c EXCEPT !.cache = [hit |-> TRUE, value |-> result],
                !.ss = setkey(ss5, "initialized", TRUE)]

\* step 2: the sample is loaded through the memo; a missing file stops the
\* script before anything is stored
step2(c) ==
  IF ~needs_init(c.ss) \/ ~csv.found THEN c
  ELSE init_exam(c, IF c.cache.hit THEN c.cache.value
                    ELSE load_and_sort_questions(csv.rows))

\* the value the widget q_<i> holds in this run
selected(c, i) ==
  IF i \in DOMAIN c.w.q THEN c.w.q[i] ELSE widget_default(c.ss.questions[i])

\* step 3, the answering loop: every question's answer is read from its
\* widget and stored
\* (the mutant: the answers are read on every run; once the answers are
\* submitted no widget is shown and every answer reads as its default)
step3_ReadsAlways(c) ==
  LET questions == c.ss.questions
      shown == [i \in 1..Len(questions) |-> selected(c, i)]
  IN  IF c.ss.submitted
      THEN [c EXCEPT !.ss = setkey(@, "user_answers",
                               [i \in 1..Len(questions) |->
                                  display_question(questions[i],
                                                   widget_default(questions[i]))]),
                     !.w.q = <<>>]
      ELSE [c EXCEPT !.ss = setkey(@, "user_answers",
                               [i \in 1..Len(questions) |->
                                  display_question(questions[i], shown[i])]),
                     !.w.q = shown,
                     !.page = ExamPage]

step3(c) ==
  IF c.ss.submitted THEN [c EXCEPT !.w.q = <<>>]
  ELSE LET questions == c.ss.questions
           shown == [i \in 1..Len(questions) |-> selected(c, i)]
       IN  [c EXCEPT !.ss = setkey(@, "user_answers",
                               [i \in 1..Len(questions) |->
                                  display_question(questions[i], shown[i])]),
                     !.w.q = shown,
                     !.page = ExamPage]

\* the mutant of step4: the exam counts as submitted only while the insert
\* has succeeded
step4_SubmittedIffStored(c, outcome) ==
  IF ~c.ss.submitted THEN [c EXCEPT !.w.admin_pwd = <<>>]
  ELSE LET total == total_score(c.ss.questions, c.ss.user_answers)
           record == [name |-> c.ss.name, id |-> c.ss.id, score |-> total]
           pwd == c.w.admin_pwd
       IN  [c EXCEPT !.ss = setkey(@, "submitted", outcome = "201"),
                     !.calls = Append(@, record),
                     !.page = [view |-> IF outcome = "201" THEN "result" ELSE "exam",
                               warning |-> FALSE,
                               total_score |-> total,
                               details |-> details(c.ss.questions, c.ss.user_answers),
                               db |-> outcome,
                               selected |-> (pwd = AdminPassword)]]

\* step 4 showing the score only behind an insert that went through
step4_ScoreAfterInsert(c, outcome) ==
  IF ~c.ss.submitted THEN [c EXCEPT !.w.admin_pwd = <<>>]
  ELSE LET total == total_score(c.ss.questions, c.ss.user_answers)
           record == [name |-> c.ss.name, id |-> c.ss.id, score |-> total]
           pwd == c.w.admin_pwd
       IN  [c EXCEPT !.calls = Append(@, record),
                     !.page = [view |-> "result", warning |-> FALSE,
                               total_score |-> IF outcome = "201" THEN total ELSE -1,
                               details |-> details(c.ss.questions, c.ss.user_answers),
                               db |-> outcome,
                               selected |-> (pwd = AdminPassword)]]

\* step 4 reading the scores for any password that was typed
step4_AnyPassword(c, outcome) ==
  IF ~c.ss.submitted THEN [c EXCEPT !.w.admin_pwd = <<>>]
  ELSE LET total == total_score(c.ss.questions, c.ss.user_answers)
           record == [name |-> c.ss.name, id |-> c.ss.id, score |-> total]
           pwd == c.w.admin_pwd
       IN  [c EXCEPT !.calls = Append(@, record),
                     !.page = [view |-> "result", warning |-> FALSE,
                               total_score |-> total,
                               details |-> details(c.ss.questions, c.ss.user_answers),
                               db |-> outcome,
                               selected |-> (pwd # <<>>)]]

\* step 4 with the insert outside the test of submitted
step4_InsertAlways(c, outcome) ==
  LET total == total_score(c.ss.questions, c.ss.user_answers)
      record == [name |-> c.ss.name, id |-> c.ss.id, score |-> total]
      pwd == c.w.admin_pwd
  IN  IF ~c.ss.submitted
      THEN [c EXCEPT !.w.admin_pwd = <<>>, !.calls = Append(@, record)]
      ELSE [c EXCEPT !.calls = Append(@, record),
                     !.page = [view |-> "result", warning |-> FALSE,
                               total_score |-> total,
                               details |-> details(c.ss.questions, c.ss.user_answers),
                               db |-> outcome,
                               selected |-> (pwd = AdminPassword)]]

\* step 4: the score, the insert into exam_scores (ending as outcome says)
\* and the admin panel
step4(c, outcome) ==
  IF ~c.ss.submitted THEN [c EXCEPT !.w.admin_pwd = <<>>]
  ELSE LET total == total_score(c.ss.questions, c.ss.user_answers)
           record == [name |-> c.ss.name, id |-> c.ss.id, score |-> total]
           pwd == c.w.admin_pwd
       IN  [c EXCEPT !.calls = Append(@, record),
                     !.page = [view |-> "result", warning |-> FALSE,
                               total_score |-> total,
                               details |-> details(c.ss.questions, c.ss.user_answers),
                               db |-> outcome,
                               selected |-> (pwd = AdminPassword)]]

\* the identity form of step 1, ended by st.stop()
identity_page(c, warning) ==
  [c EXCEPT !.w.q = <<>>, !.w.admin_pwd = <<>>,
            !.page = [BlankPage EXCEPT !.warning = warning]]

\* st.stop() in load_and_sort_questions when the file is missing
halt_page(c) == [c EXCEPT !.w = NoWidgets, !.page = HaltPage]

\* steps 3 and 4 of a run in which no button is pressed, c2 being the
\* context step 2 leaves
show_exam(c2, outcome) ==
  IF "initialized" \notin DOMAIN c2.ss THEN halt_page(c2)
  ELSE step4(step3(c2), outcome)

\* the run that st.rerun() starts: the script from its first line with no
\* button pressed
rerun(c, outcome) ==
  IF needs_identity(c.ss) THEN identity_page(c, FALSE)
  ELSE show_exam(step2([c EXCEPT !.w.name_input = <<>>, !.w.id_input = <<>>]), outcome)

\* st.session_state.submitted = True, then st.rerun()
submit(c3, outcome) == rerun([c3 EXCEPT !.ss = setkey(@, "submitted", TRUE)], outcome)

\* steps 3 and 4 of a run, c2 being the context step 2 leaves: the submit
\* button is on the page only while the answers are not submitted
answer_exam(c2, clicked, outcome) ==
  IF "initialized" \notin DOMAIN c2.ss THEN halt_page(c2)
  ELSE IF ~c2.ss.submitted /\ clicked = "submit" THEN submit(step3(c2), outcome)
  ELSE step4(step3(c2), outcome)

\* the script from its first line; clicked is the button this request
\* pressed ("start", "submit" or "none")
\* the script without the st.stop() that ends the identity form: a run that
\* stores no identity goes on to set up the exam
script_NoStop(c, clicked, outcome) ==
  IF needs_identity(c.ss)
  THEN IF clicked = "start" /\ valid_identity(c.w.name_input, c.w.id_input)
       THEN rerun([c EXCEPT !.ss = store_identity(@, c.w.name_input, c.w.id_input)],
                  outcome)
       ELSE answer_exam(step2(c), "none", outcome)
  ELSE answer_exam(step2([c EXCEPT !.w.name_input = <<>>, !.w.id_input = <<>>]),
                   clicked, outcome)

script(c, clicked, outcome) ==
  IF needs_identity(c.ss)
  THEN IF clicked = "start" /\ valid_identity(c.w.name_input, c.w.id_input)
       THEN rerun([c EXCEPT !.ss = store_identity(@, c.w.name_input, c.w.id_input)],
                  outcome)
       ELSE identity_page(c, clicked = "start")
  ELSE answer_exam(step2([c EXCEPT !.w.name_input = <<>>, !.w.id_input = <<>>]),
                   clicked, outcome)

(***************************************************************************)
(* The requests.  Each is one change of a widget or one click, followed    *)
(* by the run of the script it triggers.                                   *)
(***************************************************************************)
context(s) ==
  [ss |-> session_state[s], w |-> widgets[s], cache |-> cache,
   calls |-> insert_calls[s], page |-> page[s]]

\* a request on a page that keeps its state in globals of the process: what
\* the run stores is stored for every session
Request_SharedState(s, w, clicked) ==
  \E outcome \in Outcomes :
    \E c \in {script([context(s) EXCEPT !.w = w], clicked, outcome)} :
        /\ Len(c.calls) <= MaxInserts
        /\ session_state' = [t \in Sessions |-> c.ss]
        /\ widgets' = [widgets EXCEPT ![s] = c.w]
        /\ insert_calls' = [insert_calls EXCEPT ![s] = c.calls]
        /\ page' = [page EXCEPT ![s] = c.page]
        /\ cache' = c.cache
        /\ UNCHANGED csv

Request(s, w, clicked) ==
  \E outcome \in Outcomes :
    \E c \in {script([context(s) EXCEPT !.w = w], clicked, outcome)} :
        /\ Len(c.calls) <= MaxInserts
        /\ session_state' = [session_state EXCEPT ![s] = c.ss]
        /\ widgets' = [widgets EXCEPT ![s] = c.w]
        /\ insert_calls' = [insert_calls EXCEPT ![s] = c.calls]
        /\ page' = [page EXCEPT ![s] = c.page]
        /\ cache' = c.cache
        /\ UNCHANGED csv

EditName(s, text) ==
  /\ page[s].view = "identity"
  /\ text # widgets[s].name_input
  /\ Request(s, [widgets[s] EXCEPT !.name_input = text], "none")

EditId(s, text) ==
  /\ page[s].view = "identity"
  /\ text # widgets[s].id_input
  /\ Request(s, [widgets[s] EXCEPT !.id_input = text], "none")

ClickStart(s) ==
  /\ page[s].view = "identity"
  /\ Request(s, widgets[s], "start")

SelectAnswer(s, i, value) ==
  /\ page[s].view = "exam"
  /\ i \in DOMAIN widgets[s].q
  /\ value \in widget_values(session_state[s].questions[i])
  /\ value # widgets[s].q[i]
  /\ Request(s, [widgets[s] EXCEPT !.q[i] = value], "none")

ClickSubmit(s) ==
  /\ page[s].view = "exam"
  /\ Request(s, widgets[s], "submit")

EditAdminPwd(s, text) ==
  /\ page[s].view = "result"
  /\ text # widgets[s].admin_pwd
  /\ Request(s, [widgets[s] EXCEPT !.admin_pwd = text], "none")

\* any request of session s
SessionStep(s) ==
  \/ \E text \in NameInputs : EditName(s, text)
  \/ \E text \in IdInputs : EditId(s, text)
  \/ ClickStart(s)
  \/ \E i \in 1..MaxPool, value \in UNION {widget_values(session_state[s].questions[j]) :
                                             j \in DOMAIN widgets[s].q} :
       SelectAnswer(s, i, value)
  \/ ClickSubmit(s)
  \/ \E text \in PwdInputs : EditAdminPwd(s, text)

Next == \E s \in Sessions : SessionStep(s)

Spec == Init /\ [][Next]_vars

(***************************************************************************)
(* The sampler on its own: the bank is drawn from every bank of at most    *)
(* MaxPool rows, and the one step is the first call of                     *)
(* load_and_sort_questions, whose result the memo keeps.                   *)
(***************************************************************************)
InitSample ==
  /\ csv \in {[found |-> TRUE, rows |-> b] : b \in SampleBanks}
  /\ InitSessions

Load ==
  /\ csv.found
  /\ ~cache.hit
  /\ cache' = [hit |-> TRUE, value |-> load_and_sort_questions(csv.rows)]
  /\ UNCHANGED <<csv, session_state, widgets, insert_calls, page>>

NextSample == Load

SpecSample == InitSample /\ [][NextSample]_vars

(***************************************************************************)
(* One candidate alone: the bank is drawn from every bank of at most       *)
(* MaxExam rows and only the first session sends requests.                 *)
(***************************************************************************)
InitExam ==
  /\ csv \in {[found |-> TRUE, rows |-> b] : b \in ExamBanks}
  /\ InitSessions

NextExam == SessionStep("s1")

SpecExam == InitExam /\ [][NextExam]_vars

(***************************************************************************)
(* The start of the exam: both sessions send the requests of the identity  *)
(* form, on every bank of at most MaxExam rows.                            *)
(***************************************************************************)
InitStart ==
  /\ csv \in {[found |-> TRUE, rows |-> b] : b \in ExamBanks}
  /\ InitSessions

NextStart ==
  \E s \in Sessions :
    \/ \E text \in NameInputs : EditName(s, text)
    \/ \E text \in IdInputs : EditId(s, text)
    \/ ClickStart(s)

SpecStart == InitStart /\ [][NextStart]_vars

(***************************************************************************)
(* What the claims speak of.                                               *)
(***************************************************************************)
HasIdentity(s) == "name" \in DOMAIN session_state[s] /\ "id" \in DOMAIN session_state[s]

IsInitialized(s) == "initialized" \in DOMAIN session_state[s]

IsSubmitted(s) == "submitted" \in DOMAIN session_state[s] /\ session_state[s].submitted

\* blank after trimming: nothing but whitespace
Blank(text) == \A i \in 1..Len(text) : text[i] \in Whitespace

\* a request that changed the value of the widget of question j
WidgetChanged(s, j) ==
  /\ j \in DOMAIN widgets[s].q
  /\ j \in DOMAIN widgets'[s].q
  /\ widgets'[s].q[j] # widgets[s].q[j]

\* the cleaned frame of the bank, and how many of its records are of a type
Frame == clean_frame(csv.rows)

CountOf(type) == Cardinality({i \in 1..Len(Frame) : classify(Frame[i]) = type})

\* the type of the slice index i of a sample lies in
SliceOf(sample, i) ==
  IF i <= sample.break_single THEN "Single"
  ELSE IF i <= sample.break_multiple THEN "Multiple"
  ELSE "TrueFalse"

(***************************************************************************)
(* C1: in every session the Result Sink insert is attempted exactly once   *)
(* after submission and never a second time, whatever requests follow: no  *)
(* insert before the answers are submitted, one insert ever after.         *)
(***************************************************************************)
C1_InsertExactlyOnce ==
  \A s \in Sessions :
    Len(insert_calls[s]) = (IF IsSubmitted(s) THEN 1 ELSE 0)

(***************************************************************************)
(* C2: submission is one-way: once submitted is true of a session it is    *)
(* true after every later request, and the answering page is not shown     *)
(* again.                                                                  *)
(***************************************************************************)
C2_SubmittedOneWay ==
  [][\A s \in Sessions :
       IsSubmitted(s) =>
         /\ "submitted" \in DOMAIN session_state'[s]
         /\ session_state'[s].submitted
         /\ page'[s].view = "result"]_vars

\* a submitted session that has made a further request
C2_Witness ==
  \E s \in Sessions : IsSubmitted(s) /\ Len(insert_calls[s]) >= 2

(***************************************************************************)
(* C3: the answer records are frozen at submit time: no request that       *)
(* leaves the session submitted (the submitting request included) changes  *)
(* a record, and before submission a record changes only in a request      *)
(* that changed the widget of its own index.                               *)
(***************************************************************************)
C3_AnswersFrozen ==
  [][\A s \in Sessions :
       "user_answers" \in DOMAIN session_state[s] =>
         /\ "user_answers" \in DOMAIN session_state'[s]
         /\ Len(session_state'[s].user_answers) = Len(session_state[s].user_answers)
         /\ \A j \in 1..Len(session_state[s].user_answers) :
              session_state'[s].user_answers[j] # session_state[s].user_answers[j]
                => /\ ~session_state'[s].submitted
                   /\ WidgetChanged(s, j)]_vars

\* a submitted session with a recorded answer that has made a further request
C3_Witness ==
  \E s \in Sessions :
    /\ IsSubmitted(s)
    /\ Len(insert_calls[s]) >= 2
    /\ \E j \in 1..Len(session_state[s].user_answers) :
         session_state[s].user_answers[j] \notin {None, PyList({})}

(***************************************************************************)
(* C4: initExam is idempotent: once a session's exam is set up, every      *)
(* later request leaves questions, break_single and break_multiple as      *)
(* they are, and resets no answer: an answer only changes with its own     *)
(* widget.                                                                 *)
(***************************************************************************)
C4_InitExamOnce ==
  [][\A s \in Sessions :
       IsInitialized(s) =>
         /\ "initialized" \in DOMAIN session_state'[s]
         /\ session_state'[s].questions = session_state[s].questions
         /\ session_state'[s].break_single = session_state[s].break_single
         /\ session_state'[s].break_multiple = session_state[s].break_multiple
         /\ \A j \in 1..Len(session_state[s].user_answers) :
              \/ session_state'[s].user_answers[j] = session_state[s].user_answers[j]
              \/ WidgetChanged(s, j)]_vars

\* a session whose two questions both have a recorded answer: the exam was
\* set up and at least two requests followed
C4_Witness ==
  \E s \in Sessions :
    /\ IsInitialized(s)
    /\ Len(session_state[s].user_answers) = 2
    /\ \A j \in 1..2 : session_state[s].user_answers[j] \notin {None, PyList({})}

(***************************************************************************)
(* C5: a request made while the typed name or id is blank after trimming   *)
(* changes nothing: neither name nor id is stored, the exam is not set up  *)
(* and the identity form stays.                                            *)
(***************************************************************************)
C5_BlankStartRejected ==
  [][\A s \in Sessions :
       ( /\ page[s].view = "identity"
         /\ (Blank(widgets[s].name_input) \/ Blank(widgets[s].id_input)) )
       => /\ session_state'[s] = session_state[s]
          /\ ~HasIdentity(s)
          /\ ~IsInitialized(s)
          /\ page'[s].view = "identity"]_vars

\* a start was refused (the warning is on the page) with a name of spaces
C5_Witness ==
  \E s \in Sessions :
    /\ page[s].warning
    /\ widgets[s].name_input = <<" ">>
    /\ widgets[s].id_input # <<>>
    /\ session_state[s] = <<>>

(***************************************************************************)
(* C6: once stored, the candidate's name and id are both non-empty and     *)
(* stay as they are after every later request.                             *)
(***************************************************************************)
C6_IdentityImmutable ==
  /\ [](\A s \in Sessions :
          HasIdentity(s) => session_state[s].name # <<>> /\ session_state[s].id # <<>>)
  /\ [][\A s \in Sessions :
          HasIdentity(s) =>
            /\ "name" \in DOMAIN session_state'[s]
            /\ "id" \in DOMAIN session_state'[s]
            /\ session_state'[s].name = session_state[s].name
            /\ session_state'[s].id = session_state[s].id]_vars

\* a session whose identity is stored and that has gone on to the result
C6_Witness ==
  \E s \in Sessions :
    HasIdentity(s) /\ IsSubmitted(s) /\ widgets[s].admin_pwd # <<>>

(***************************************************************************)
(* C7: break_single <= break_multiple <= total, and the questions before   *)
(* break_single are Single, those from there to break_multiple are         *)
(* Multiple, the rest are TrueFalse.                                       *)
(***************************************************************************)
C7_SlicesByType ==
  cache.hit =>
    LET sample == cache.value
    IN  /\ 0 <= sample.break_single
        /\ sample.break_single <= sample.break_multiple
        /\ sample.break_multiple <= Len(sample.questions)
        /\ \A i \in 1..Len(sample.questions) :
             classify(sample.questions[i]) = SliceOf(sample, i)

\* a sample with a question in each of the three slices
C7_Witness ==
  /\ cache.hit
  /\ cache.value.break_single >= 1
  /\ cache.value.break_multiple > cache.value.break_single
  /\ Len(cache.value.questions) > cache.value.break_multiple

(***************************************************************************)
(* C8: the sample has min(NUM_SINGLE, singles) + min(NUM_MULTIPLE,         *)
(* multiples) + min(NUM_TRUE_FALSE, trueFalses) questions, where each      *)
(* count is that of the bank's records of the type; a short or empty       *)
(* type gives a shorter exam.                                              *)
(***************************************************************************)
C8_SampleSize ==
  cache.hit =>
    Len(cache.value.questions)
      = min(NUM_SINGLE, CountOf("Single")) + min(NUM_MULTIPLE, CountOf("Multiple"))
          + min(NUM_TRUE_FALSE, CountOf("TrueFalse"))

\* a bank with more single-choice questions than the section takes and no
\* multiple-choice question at all
C8_Witness ==
  /\ cache.hit
  /\ CountOf("Single") > NUM_SINGLE
  /\ CountOf("Multiple") = 0
  /\ Len(cache.value.questions) >= NUM_SINGLE

(***************************************************************************)
(* C9 as claimed: every record of the bank is placed in exactly one of the *)
(* three lists and is at most once in the sample.                          *)
(***************************************************************************)
BucketsHolding(stem) ==
  {type \in {"Single", "Multiple", "TrueFalse"} :
     \E k \in 1..Len(bucket(Frame, type)) : bucket(Frame, type)[k].stem = stem}

TimesSampled(sample, stem) ==
  Cardinality({i \in 1..Len(sample.questions) : sample.questions[i].stem = stem})

C9_EveryRecordInOneBucket ==
  cache.hit =>
    \A r \in 1..Len(csv.rows) :
      /\ Cardinality(BucketsHolding(csv.rows[r].stem)) = 1
      /\ TimesSampled(cache.value, csv.rows[r].stem) <= 1

(***************************************************************************)
(* C9 as amended: every record of the bank whose answer is not blank once  *)
(* cleaned is placed in exactly one of the three lists, a record whose     *)
(* cleaned answer is blank is placed in none, and every record is at most  *)
(* once in the sample.                                                     *)
(***************************************************************************)
C9_NoQuestionTwice ==
  cache.hit =>
    \A r \in 1..Len(csv.rows) :
      /\ Cardinality(BucketsHolding(csv.rows[r].stem))
           = (IF Blank(str(csv.rows[r].answer)) THEN 0 ELSE 1)
      /\ TimesSampled(cache.value, csv.rows[r].stem) <= 1

\* a bank with a true/false question whose answer is one letter, sampled
\* along with a single-choice question
C9_Witness ==
  /\ cache.hit
  /\ Len(csv.rows) >= 2
  /\ \E r \in 1..Len(csv.rows) :
       /\ BucketsHolding(csv.rows[r].stem) = {"TrueFalse"}
       /\ Len(strip(str(csv.rows[r].answer))) = 1
       /\ TimesSampled(cache.value, csv.rows[r].stem) = 1
  /\ cache.value.break_single >= 1

(***************************************************************************)
(* C10: a question whose option A, prefix stripped, names a true word and  *)
(* whose option B names a false word is TrueFalse whatever its answer's    *)
(* length; any other question is Single iff its cleaned answer has one     *)
(* letter and Multiple iff it has two or more.  The type is read off the   *)
(* slice of the sample the question is put in.                             *)
(***************************************************************************)
NamesWord(text, words) ==
  LET content == strip_prefix(strip(str(text)))
  IN  \E w \in words, i \in 1..Len(content), j \in 1..Len(content) :
        SubSeq(content, i, j) = w

PriorityRule(q) ==
  IF NamesWord(q.option_A, TrueWords) /\ NamesWord(q.option_B, FalseWords)
  THEN "TrueFalse"
  ELSE IF Len(q.answer) = 1 THEN "Single"
  ELSE IF Len(q.answer) >= 2 THEN "Multiple"
  ELSE "None"

C10_ClassifyPriority ==
  cache.hit =>
    /\ \A i \in 1..Len(cache.value.questions) :
         SliceOf(cache.value, i) = PriorityRule(cache.value.questions[i])
    /\ (Len(csv.rows) = 1 /\ ~Blank(str(csv.rows[1].answer)))
         => Len(cache.value.questions) = 1

\* a bank of one generated question that names the two-character true
\* word, has a two-letter answer and is put in the true/false slice
C10_Witness ==
  /\ cache.hit
  /\ Len(csv.rows) = 1
  /\ csv.rows[1].option_A = <<"zheng", "que">>
  /\ Len(cache.value.questions) = 1
  /\ Len(cache.value.questions[1].answer) = 2
  /\ cache.value.break_multiple = 0

\* the sum of the first n entries of f
RECURSIVE SumTo(_, _)
SumTo(f, n) == IF n = 0 THEN 0 ELSE f[n] + SumTo(f, n - 1)

\* the letters a stored answer gives, and the letters of a sampled
\* question's answer
GivenLetters(answer) ==
  CASE answer.t = "list" -> answer.l
    [] answer.t = "str" -> {answer.s}
    [] OTHER -> {}

CanonicalLetters(q) == {<<q.answer[i]>> : i \in 1..Len(q.answer)}

\* the points the grading rule gives an answer
RulePoints(q, answer) ==
  IF GivenLetters(answer) # CanonicalLetters(q) THEN 0
  ELSE IF Cardinality(CanonicalLetters(q)) > 1 THEN MULTIPLE_SCORE
  ELSE SINGLE_SCORE

\* the session's result page is out
Graded(s) == IsSubmitted(s) /\ page[s].db # "none"

(***************************************************************************)
(* C11: on every result page a question is marked right exactly when the   *)
(* set of given letters equals the set of the answer's letters, a right    *)
(* answer is given MULTIPLE_SCORE if the answer has more than one letter   *)
(* and SINGLE_SCORE otherwise, a wrong one 0, and the total shown is the   *)
(* sum of these points.                                                    *)
(***************************************************************************)
C11_ScoreRule ==
  \A s \in Sessions :
    Graded(s) =>
      LET questions == session_state[s].questions
          answers == session_state[s].user_answers
          points == [i \in 1..Len(questions) |-> RulePoints(questions[i], answers[i])]
      IN /\ Len(page[s].details) = Len(questions)
         /\ \A i \in 1..Len(questions) :
              /\ page[s].details[i].correct
                   <=> GivenLetters(answers[i]) = CanonicalLetters(questions[i])
              /\ page[s].details[i].score = points[i]
         /\ page[s].total_score = SumTo(points, Len(questions))

\* a result page with a right one-letter answer, a right answer of several
\* letters, and the total of both
C11_Witness ==
  \E s \in Sessions :
    /\ Graded(s)
    /\ \E i, j \in 1..Len(page[s].details) :
         /\ page[s].details[i].correct /\ page[s].details[i].score = SINGLE_SCORE
         /\ page[s].details[j].correct /\ page[s].details[j].score = MULTIPLE_SCORE
    /\ page[s].total_score = SINGLE_SCORE + MULTIPLE_SCORE

(***************************************************************************)
(* C12: as the header of the exam says, a true/false question is worth     *)
(* MULTIPLE_SCORE: on every result page each question of the true/false    *)
(* slice that is marked right is given MULTIPLE_SCORE points.              *)
(***************************************************************************)
C12_TrueFalseWorthMultiple ==
  \A s \in Sessions :
    Graded(s) =>
      \A i \in (session_state[s].break_multiple + 1)..Len(session_state[s].questions) :
        page[s].details[i].correct => page[s].details[i].score = MULTIPLE_SCORE

(***************************************************************************)
(* C13: whenever the insert ended in an error status or an exception, the  *)
(* failure is reported on the page and the script ran on to its end, the   *)
(* session is still submitted, and the page of that request shows the      *)
(* total score.                                                            *)
(***************************************************************************)
C13_FailedInsertKeepsResult ==
  \A s \in Sessions :
    page[s].db \in {"error", "exception"} =>
      LET questions == session_state[s].questions
          answers == session_state[s].user_answers
          points == [i \in 1..Len(questions) |-> RulePoints(questions[i], answers[i])]
      IN /\ IsSubmitted(s)
         /\ page[s].view = "result"
         /\ page[s].total_score = SumTo(points, Len(questions))
         /\ widgets[s].admin_pwd = AdminPassword => page[s].selected

\* a failed insert of each kind behind a page that shows points won
C13_Witness ==
  /\ \E s \in Sessions : page[s].db = "error" /\ page[s].total_score > 0
  /\ \E s \in Sessions : page[s].db = "exception" /\ page[s].total_score > 0

(***************************************************************************)
(* C14: the scores were read in the last request of a session only if the  *)
(* admin password entered in that request is the static secret; with any   *)
(* other or an empty password nothing was read.                            *)
(***************************************************************************)
C14_SelectOnlyWithPassword ==
  \A s \in Sessions : page[s].selected => widgets[s].admin_pwd = AdminPassword

\* one session has read the scores, another has typed a wrong password and
\* read nothing
C14_Witness ==
  \E s, t \in Sessions :
    /\ page[s].selected
    /\ widgets[t].admin_pwd \notin {<<>>, AdminPassword} /\ ~page[t].selected

SessionPart(s) == <<session_state[s], widgets[s], insert_calls[s], page[s]>>

(***************************************************************************)
(* C16: sessions are independent: under any interleaving a request changes *)
(* the stored state, the widgets, the inserts and the page of one session  *)
(* only and leaves the identity, sample, answers and submitted flag of     *)
(* every other session as they were; only the bank and the memo of the     *)
(* sample are shared, and the bank is never written.                       *)
(***************************************************************************)
C16_SessionsIndependent ==
  [][/\ \A s, t \in Sessions :
          s # t /\ SessionPart(s)' # SessionPart(s) => SessionPart(t)' = SessionPart(t)
     /\ csv' = csv
     /\ cache.hit => cache' = cache]_vars

\* both sessions are under way at different places: one has submitted, the
\* other has recorded an answer and not submitted
C16_Witness ==
  \E s, t \in Sessions :
    /\ IsSubmitted(s)
    /\ IsInitialized(t) /\ ~IsSubmitted(t)
    /\ \E j \in 1..Len(session_state[t].user_answers) :
         session_state[t].user_answers[j] # None
    /\ session_state[s].user_answers # session_state[t].user_answers

\* one of the option letters
IsLetter(text) == \E k \in 1..Len(OptionLabels) : text = <<OptionLabels[k]>>

(***************************************************************************)
(* C17: in every state the recorded answer of a question of the            *)
(* single-choice slice or of the true/false slice is null or one letter,   *)
(* and the recorded answer of a question of the multiple-choice slice is   *)
(* a set of letters, which may be empty.                                   *)
(***************************************************************************)
C17_RecordShapeBySlice ==
  \A s \in Sessions :
    IsInitialized(s) =>
      \A i \in 1..Len(session_state[s].user_answers) :
        LET answer == session_state[s].user_answers[i]
        IN  IF SliceOf(session_state[s], i) = "Multiple"
            THEN answer.t = "list" /\ \A x \in answer.l : IsLetter(x)
            ELSE answer = None \/ (answer.t = "str" /\ IsLetter(answer.s))

(***************************************************************************)
(* C18: every question of a sample has an answer that is not empty after   *)
(* normalisation, so on every result page a question left unanswered (a    *)
(* null record or an empty selection) is marked wrong and given 0 points.  *)
(***************************************************************************)
C18_UnansweredScoresZero ==
  \A s \in Sessions :
    /\ IsInitialized(s) =>
         \A i \in 1..Len(session_state[s].questions) :
           /\ session_state[s].questions[i].answer # <<>>
           /\ ~Blank(session_state[s].questions[i].answer)
    /\ Graded(s) =>
         \A i \in 1..Len(session_state[s].questions) :
           session_state[s].user_answers[i] \in {None, PyList({})} =>
             /\ ~page[s].details[i].correct
             /\ page[s].details[i].score = 0

\* a result page of an exam on a bank one row of which has a blank answer
\* and is not in the sample, and the question of which was left with an
\* empty selection
C18_Witness ==
  \E s \in Sessions :
    /\ Graded(s)
    /\ \E r \in 1..Len(csv.rows) : Blank(csv.rows[r].answer)
    /\ Len(session_state[s].questions) < Len(csv.rows)
    /\ \E j \in 1..Len(session_state[s].questions) :
         /\ has_widget(session_state[s].questions[j])
         /\ session_state[s].user_answers[j] = PyList({})
    /\ page[s].total_score = 0

(***************************************************************************)
(* C19: every insert is made in a submitted session: whenever a session    *)
(* has sent a record to the Result Sink it is submitted, and each record   *)
(* carries the name and id the session stores and the score of its sample  *)
(* under the answers frozen at submission; a session that is not           *)
(* submitted has sent none.                                                *)
(***************************************************************************)
C19_InsertOnlyWhenSubmitted ==
  \A s \in Sessions :
    /\ ~IsSubmitted(s) => insert_calls[s] = <<>>
    /\ \A k \in 1..Len(insert_calls[s]) :
         LET questions == session_state[s].questions
             answers == session_state[s].user_answers
             points == [i \in 1..Len(questions) |-> RulePoints(questions[i], answers[i])]
         IN /\ IsSubmitted(s)
            /\ insert_calls[s][k].name = session_state[s].name
            /\ insert_calls[s][k].id = session_state[s].id
            /\ insert_calls[s][k].score = SumTo(points, Len(questions))

\* one session has sent a record with points won while the other is still
\* answering and has sent none
C19_Witness ==
  \E s, t \in Sessions :
    /\ insert_calls[s] # <<>> /\ insert_calls[s][1].score > 0
    /\ IsInitialized(t) /\ ~IsSubmitted(t) /\ insert_calls[t] = <<>>
    /\ \E j \in 1..Len(session_state[t].user_answers) :
         session_state[t].user_answers[j] \notin {None, PyList({})}

(***************************************************************************)
(* C20: the session lifecycle is ordered: an exam is set up only in a      *)
(* session that stores a name and an id, neither of them blank; a session  *)
(* is submitted only if its exam is set up; and once the exam is set up    *)
(* there is exactly one recorded answer for each question of the sample.   *)
(***************************************************************************)
C20_LifecycleOrdered ==
  \A s \in Sessions :
    /\ IsInitialized(s) =>
         /\ HasIdentity(s)
         /\ ~Blank(session_state[s].name)
         /\ ~Blank(session_state[s].id)
         /\ DOMAIN session_state[s].user_answers = DOMAIN session_state[s].questions
    /\ IsSubmitted(s) => IsInitialized(s)

\* a submitted session with an exam of two questions next to a session
\* whose exam is not set up
C20_Witness ==
  \E s, t \in Sessions :
    /\ IsSubmitted(s) /\ Len(session_state[s].questions) = 2
    /\ ~IsInitialized(t)

====
